---- MODULE Spec2Model ----
(* fetch_bathrooms (src/main.rs): a callback-driven geolocation request is   *)
(* bridged to an awaited oneshot channel through a Mutex<Option<Sender>>     *)
(* gate, and its coordinates are chained into one Overpass network request.  *)
EXTENDS Integers, Sequences, FiniteSets, TLC

(* ------------------------------ bounds ---------------------------------- *)
NInv == 2

Inv == 1 .. NInv
Kinds == {"success", "error"}

(* ---------------------- values of the program --------------------------- *)
NoSender == 0
NoValue == <<"None">>
NoEvent == <<"none">>
Free == <<"free">>
NoResponse == [kind |-> "none"]

\* the PositionError kinds a device can report to the error callback
ErrCodes == {"PERMISSION_DENIED", "POSITION_UNAVAILABLE", "TIMEOUT"}

\* coordinates in tenths of a degree: <<lat, lon>>
CoordPairs == {<<-15, 7>>, <<123, -120>>}

SuccessEvents == {<<"success", c[1], c[2]>> : c \in CoordPairs}
ErrorEvents == {<<"error", e>> : e \in ErrCodes}
Events == SuccessEvents \cup ErrorEvents

FetchBathroomsFailed == "FetchBathroomsFailed"

\* what each closure passes to sender.send
PayloadOkOnError(ev) ==
    IF ev[1] = "success" THEN <<"Ok", ev[2], ev[3]>>
    ELSE <<"Ok", 0, 0>>
PayloadKeepsKind(ev) ==
    IF ev[1] = "success" THEN <<"Ok", ev[2], ev[3]>>
    ELSE <<"Err", ev[2]>>
Payload(ev) ==
    IF ev[1] = "success" THEN <<"Ok", ev[2], ev[3]>>
    ELSE <<"Err", FetchBathroomsFailed>>

\* outcomes of window() / navigator.geolocation() / get_current_position
Devices == {"ok", "no_window", "no_geolocation", "register_err"}

VARIABLES pc, device, registrations, gate, lock, chan, cb, first, later,
          sent, received, requests, response, result, droppedAt

vars == <<pc, device, registrations, gate, lock, chan, cb, first, later,
          sent, received, requests, response, result, droppedAt>>

\* oneshot::channel(): empty slot, not complete, receiver alive
NewChannel == [data |-> NoValue, complete |-> FALSE, rx |-> "alive"]

IdleCb == [pc |-> "idle", arg |-> NoEvent, taken |-> NoSender]

Init ==
    /\ pc = [i \in Inv |-> "idle"]
    /\ device = [i \in Inv |-> "unstarted"]
    /\ registrations = [i \in Inv |-> 0]
    /\ gate = [i \in Inv |-> NoSender]
    /\ lock = [i \in Inv |-> Free]
    /\ chan = [i \in Inv |-> NewChannel]
    /\ cb = [i \in Inv |-> [k \in Kinds |-> IdleCb]]
    /\ first = [i \in Inv |-> NoEvent]
    /\ later = [i \in Inv |-> FALSE]
    /\ sent = [i \in Inv |-> 0]
    /\ received = [i \in Inv |-> NoValue]
    /\ requests = [i \in Inv |-> <<>>]
    /\ response = [i \in Inv |-> NoResponse]
    /\ result = [i \in Inv |-> NoValue]
    /\ droppedAt = [i \in Inv |-> "no"]

(* ------------------------- oneshot channel ------------------------------ *)
\* Sender::send consumes the sender: the value is stored unless the receiver
\* is gone, and the channel is marked complete when the sender is dropped
SendNoWake(c, v) ==
    IF c.rx = "dropped"
    THEN c
    ELSE [c EXCEPT !.data = v]
SendDropsValue(c, v) == [c EXCEPT !.complete = TRUE]
Send(c, v) ==
    IF c.rx = "dropped"
    THEN [c EXCEPT !.complete = TRUE]
    ELSE [c EXCEPT !.data = v, !.complete = TRUE]

\* Receiver::poll: Pending until the sender side has completed
RecvReadyAlways(c) == TRUE
RecvReady(c) == c.complete

\* the channel after receiver.await returned: slot emptied, receiver dropped
Received(c) == [data |-> NoValue, complete |-> TRUE, rx |-> "dropped"]

\* Receiver::drop: the channel is closed and a stored value is discarded
DropReceiver(c) == [data |-> NoValue, complete |-> TRUE, rx |-> "dropped"]

(* ------------------------- the settlement gate -------------------------- *)
\* Arc::clone(&sender): the gate a closure of invocation i captured
GateOfShared(i) == 1
GateOf(i) == i

\* Option::take leaves None behind
GateAfterTakeKeeps(g) == g
GateAfterTake(g) == NoSender

\* Mutex::lock succeeds only while no guard is alive
LockAvailableAlways(l) == TRUE
LockAvailable(l) == l = Free

(* --------------------------- query formatting --------------------------- *)
DigitChar(d) ==
    CASE d = 0 -> "0" [] d = 1 -> "1" [] d = 2 -> "2" [] d = 3 -> "3"
      [] d = 4 -> "4" [] d = 5 -> "5" [] d = 6 -> "6" [] d = 7 -> "7"
      [] d = 8 -> "8" [] d = 9 -> "9"

RECURSIVE Digits(_)
Digits(n) ==
    IF n < 10 THEN <<DigitChar(n)>>
    ELSE Digits(n \div 10) \o <<DigitChar(n % 10)>>

Abs(x) == IF x < 0 THEN 0 - x ELSE x

\* Display of an f64 given in tenths: sign, integer digits, and the
\* fractional digit only when it is not zero ("12", "0.7", "-1.5")
FmtF64NoSign(x) ==
    Digits(Abs(x) \div 10)
        \o (IF Abs(x) % 10 = 0 THEN <<>> ELSE <<".", DigitChar(Abs(x) % 10)>>)
FmtF64(x) ==
    (IF x < 0 THEN <<"-">> ELSE <<>>)
        \o Digits(Abs(x) \div 10)
        \o (IF Abs(x) % 10 = 0 THEN <<>> ELSE <<".", DigitChar(Abs(x) % 10)>>)

UrlHead ==
    << "https://overpass-api.de/api/interpreter", "?data=", "[out:json];",
       "node", "[\"amenity\"=\"toilets\"]", "(around:", "2000", "," >>
UrlTail == << ")", ";out;" >>

\* format!(".../interpreter?data=...(around:2000,{lat},{lon});out;")
Url(lat, lon) ==
    UrlHead \o FmtF64(lat) \o <<",">> \o FmtF64(lon) \o UrlTail

\* Request::get(url).send(): one request goes out
IssueRequestTwice(reqs, url) == Append(Append(reqs, url), url)
IssueRequest(reqs, url) == Append(reqs, url)

(* --------------------------- response parsing --------------------------- *)
Has(obj, keys) == keys \subseteq DOMAIN obj

\* serde: every field of Element is required; unknown keys are ignored and
\* "type" is stored in type_field
ElementOk(e) == Has(e, {"id", "lat", "lon", "tags", "type"})
ParseElement(e) ==
    [id |-> e["id"], lat |-> e["lat"], lon |-> e["lon"], tags |-> e["tags"],
     type_field |-> e["type"]]

Osm3sOk(o) == Has(o, {"copyright", "timestamp_osm_base"})

\* Response::json::<OverpassResponse>(): Ok(struct) or Err
FromJsonReversed(body) ==
    IF body[1] # "json" THEN <<"Err">>
    ELSE LET doc == body[2] IN
         IF /\ Has(doc, {"elements", "generator", "osm3s", "version"})
            /\ Osm3sOk(doc["osm3s"])
            /\ \A k \in 1 .. Len(doc["elements"]) : ElementOk(doc["elements"][k])
         THEN <<"Ok",
                [elements |-> [k \in 1 .. Len(doc["elements"]) |->
                                   ParseElement(doc["elements"]
                                       [Len(doc["elements"]) + 1 - k])],
                 generator |-> doc["generator"],
                 osm3s |-> [copyright |-> doc["osm3s"]["copyright"],
                            timestamp_osm_base |->
                                doc["osm3s"]["timestamp_osm_base"]],
                 version |-> doc["version"]]>>
         ELSE <<"Err">>
FromJson(body) ==
    IF body[1] # "json" THEN <<"Err">>
    ELSE LET doc == body[2] IN
         IF /\ Has(doc, {"elements", "generator", "osm3s", "version"})
            /\ Osm3sOk(doc["osm3s"])
            /\ \A k \in 1 .. Len(doc["elements"]) : ElementOk(doc["elements"][k])
         THEN <<"Ok",
                [elements |-> [k \in 1 .. Len(doc["elements"]) |->
                                   ParseElement(doc["elements"][k])],
                 generator |-> doc["generator"],
                 osm3s |-> [copyright |-> doc["osm3s"]["copyright"],
                            timestamp_osm_base |->
                                doc["osm3s"]["timestamp_osm_base"]],
                 version |-> doc["version"]]>>
         ELSE <<"Err">>

\* response documents the network can deliver (numbers in thousandths)
JsonEl1 == [id |-> 1, lat |-> 12341, lon |-> 56781,
            tags |-> [amenity |-> "toilets"], type |-> "node"]
JsonEl2 == [id |-> 2, lat |-> 12342, lon |-> 56782, tags |-> <<>>,
            type |-> "node", changeset |-> 7]
JsonEl2NoTags == [id |-> 2, lat |-> 12342, lon |-> 56782, type |-> "node"]
JsonOsm3s == [copyright |-> "ODbL", timestamp_osm_base |-> "2023"]
JsonDoc(els) ==
    [elements |-> els, generator |-> "Overpass API", osm3s |-> JsonOsm3s,
     version |-> 600]
BodyTwo == <<"json", JsonDoc(<<JsonEl1, JsonEl2>>)>>
BodyMissingTags == <<"json", JsonDoc(<<JsonEl1, JsonEl2NoTags>>)>>
BodyHtml == <<"text", "<html>rate limited</html>">>

TransportError == [kind |-> "transport_error"]
HttpResponses ==
    { [kind |-> "response", status |-> 200, body |-> BodyTwo],
      [kind |-> "response", status |-> 200, body |-> BodyMissingTags],
      [kind |-> "response", status |-> 429, body |-> BodyHtml],
      [kind |-> "response", status |-> 504, body |-> BodyTwo] }

(* ------------------------------ actions --------------------------------- *)
\* lines 48-76: channel and gate creation, closure creation, registration,
\* forget; one synchronous stretch up to the first await
StartAgain(i) ==
    /\ pc[i] \in {"idle", "returned", "panicked"}
    /\ \E d \in Devices :
        /\ device' = [device EXCEPT ![i] = d]
        /\ gate' = [gate EXCEPT ![i] = i]
        /\ chan' = [chan EXCEPT ![i] = NewChannel]
        /\ IF d = "ok"
           THEN /\ registrations' = [registrations EXCEPT ![i] = @ + 1]
                /\ pc' = [pc EXCEPT ![i] = "awaiting"]
           ELSE /\ registrations' = registrations
                /\ pc' = [pc EXCEPT ![i] = "panicked"]
    /\ droppedAt' = droppedAt
    /\ UNCHANGED <<lock, cb, first, later, sent, received, requests,
                   response, result>>
Start(i) ==
    /\ pc[i] = "idle"
    /\ \E d \in Devices :
        /\ device' = [device EXCEPT ![i] = d]
        /\ gate' = [gate EXCEPT ![i] = i]
        /\ chan' = [chan EXCEPT ![i] = NewChannel]
        /\ IF d = "ok"
           THEN /\ registrations' = [registrations EXCEPT ![i] = @ + 1]
                /\ pc' = [pc EXCEPT ![i] = "awaiting"]
           ELSE /\ registrations' = registrations
                /\ pc' = [pc EXCEPT ![i] = "panicked"]
    /\ droppedAt' = droppedAt
    /\ UNCHANGED <<lock, cb, first, later, sent, received, requests,
                   response, result>>

\* both closures, run to completion on the single JavaScript thread
\* (lines 52-59 and 62-66): lock, take the sender, send, unlock
Callback(i, ev) ==
    /\ registrations[i] > 0
    /\ LockAvailable(lock[GateOf(i)])
    /\ LET g == GateOf(i)
           s == gate[g]
       IN /\ gate' = [gate EXCEPT ![g] = GateAfterTake(s)]
          /\ IF s # NoSender
             THEN /\ chan' = [chan EXCEPT ![s] = Send(chan[s], Payload(ev))]
                  /\ sent' = [sent EXCEPT ![s] = @ + 1]
             ELSE UNCHANGED <<chan, sent>>
    /\ first' = [first EXCEPT ![i] = IF @ = NoEvent THEN ev ELSE @]
    /\ later' = [later EXCEPT ![i] = first[i] # NoEvent]
    /\ droppedAt' = droppedAt
    /\ UNCHANGED <<pc, device, registrations, lock, cb, received, requests,
                   response, result>>

\* lines 78-85: receiver.await.unwrap()? and, on Ok, the request is sent
Resume(i) ==
    /\ pc[i] = "awaiting"
    /\ RecvReady(chan[i])
    /\ LET v == chan[i].data IN
        /\ received' = [received EXCEPT ![i] = v]
        /\ chan' = [chan EXCEPT ![i] = Received(chan[i])]
        /\ CASE v = NoValue ->
                  /\ pc' = [pc EXCEPT ![i] = "panicked"]
                  /\ UNCHANGED <<requests, result>>
             [] v # NoValue /\ v[1] = "Err" ->
                  /\ pc' = [pc EXCEPT ![i] = "returned"]
                  /\ result' = [result EXCEPT ![i] = <<"Err", v[2]>>]
                  /\ UNCHANGED requests
             [] v # NoValue /\ v[1] = "Ok" ->
                  /\ pc' = [pc EXCEPT ![i] = "sending"]
                  /\ requests' = [requests EXCEPT
                                    ![i] = IssueRequest(@, Url(v[2], v[3]))]
                  /\ UNCHANGED result
    /\ droppedAt' = droppedAt
    /\ UNCHANGED <<device, registrations, gate, lock, cb, first, later, sent,
                   response>>

\* lines 85-87: .send().await.unwrap() completes, .json() starts
SendDone(i) ==
    /\ pc[i] = "sending"
    /\ \E r \in HttpResponses \cup {TransportError} :
        /\ response' = [response EXCEPT ![i] = r]
        /\ pc' = [pc EXCEPT ![i] = IF r.kind = "transport_error"
                                   THEN "panicked" ELSE "parsing"]
    /\ droppedAt' = droppedAt
    /\ UNCHANGED <<device, registrations, gate, lock, chan, cb, first, later,
                   sent, received, requests, result>>

\* lines 87-90: .json::<OverpassResponse>().await.unwrap(); Ok(res)
JsonDone(i) ==
    /\ pc[i] = "parsing"
    /\ LET p == FromJson(response[i].body) IN
        IF p[1] = "Ok"
        THEN /\ result' = [result EXCEPT ![i] = <<"Ok", p[2]>>]
             /\ pc' = [pc EXCEPT ![i] = "returned"]
        ELSE /\ result' = result
             /\ pc' = [pc EXCEPT ![i] = "panicked"]
    /\ droppedAt' = droppedAt
    /\ UNCHANGED <<device, registrations, gate, lock, chan, cb, first, later,
                   sent, received, requests, response>>

(* ---- the closures as concurrent threads: one step per lock operation ---- *)
SetCb(i, k, r) == [cb EXCEPT ![i][k] = r]

\* the device invokes closure k of invocation i (lines 52-55, 62)
CbInvoke(i, ev) ==
    /\ registrations[i] > 0
    /\ cb[i][ev[1]].pc = "idle"
    /\ cb' = SetCb(i, ev[1], [pc |-> "lock", arg |-> ev, taken |-> NoSender])
    /\ first' = [first EXCEPT ![i] = IF @ = NoEvent THEN ev ELSE @]
    /\ later' = [later EXCEPT ![i] = first[i] # NoEvent]
    /\ droppedAt' = droppedAt
    /\ UNCHANGED <<pc, device, registrations, gate, lock, chan, sent, received,
                   requests, response, result>>

\* sender_clone.lock().unwrap() (lines 56, 63)
CbLock(i, k) ==
    /\ cb[i][k].pc = "lock"
    /\ LockAvailable(lock[GateOf(i)])
    /\ lock' = [lock EXCEPT ![GateOf(i)] = <<i, k>>]
    /\ cb' = SetCb(i, k, [cb[i][k] EXCEPT !.pc = "read"])
    /\ droppedAt' = droppedAt
    /\ UNCHANGED <<pc, device, registrations, gate, chan, first, later, sent,
                   received, requests, response, result>>

\* Option::take, first half: read the old value out of the gate
CbRead(i, k) ==
    /\ cb[i][k].pc = "read"
    /\ cb' = SetCb(i, k, [cb[i][k] EXCEPT !.pc = "clear",
                                         !.taken = gate[GateOf(i)]])
    /\ droppedAt' = droppedAt
    /\ UNCHANGED <<pc, device, registrations, gate, lock, chan, first, later,
                   sent, received, requests, response, result>>

\* Option::take, second half: write None into the gate
CbClear(i, k) ==
    /\ cb[i][k].pc = "clear"
    /\ gate' = [gate EXCEPT ![GateOf(i)] = GateAfterTake(cb[i][k].taken)]
    /\ cb' = SetCb(i, k, [cb[i][k] EXCEPT !.pc = "send"])
    /\ droppedAt' = droppedAt
    /\ UNCHANGED <<pc, device, registrations, lock, chan, first, later, sent,
                   received, requests, response, result>>

\* if let Some(sender) = ... { let _ = sender.send(..); } (lines 56-58, 63-65)
CbSend(i, k) ==
    /\ cb[i][k].pc = "send"
    /\ LET s == cb[i][k].taken IN
        IF s # NoSender
        THEN /\ chan' = [chan EXCEPT
                            ![s] = Send(chan[s], Payload(cb[i][k].arg))]
             /\ sent' = [sent EXCEPT ![s] = @ + 1]
        ELSE UNCHANGED <<chan, sent>>
    /\ cb' = SetCb(i, k, [cb[i][k] EXCEPT !.pc = "unlock"])
    /\ droppedAt' = droppedAt
    /\ UNCHANGED <<pc, device, registrations, gate, lock, first, later,
                   received, requests, response, result>>

\* the MutexGuard temporary is dropped at the end of the if-let statement
CbUnlock(i, k) ==
    /\ cb[i][k].pc = "unlock"
    /\ lock' = [lock EXCEPT ![GateOf(i)] = Free]
    /\ cb' = SetCb(i, k, IdleCb)
    /\ droppedAt' = droppedAt
    /\ UNCHANGED <<pc, device, registrations, gate, chan, first, later, sent,
                   received, requests, response, result>>

\* the invocation followed alone: its closures as concurrent threads
\* (NextConc), its future dropped by the caller (NextDrop)
ConcInv == {1}

NextConc ==
    \/ \E i \in ConcInv : Start(i)
    \/ \E i \in ConcInv, ev \in Events : CbInvoke(i, ev)
    \/ \E i \in ConcInv, k \in Kinds : CbLock(i, k)
    \/ \E i \in ConcInv, k \in Kinds : CbRead(i, k)
    \/ \E i \in ConcInv, k \in Kinds : CbClear(i, k)
    \/ \E i \in ConcInv, k \in Kinds : CbSend(i, k)
    \/ \E i \in ConcInv, k \in Kinds : CbUnlock(i, k)
    \/ \E i \in ConcInv : Resume(i)
    \/ \E i \in ConcInv : SendDone(i)
    \/ \E i \in ConcInv : JsonDone(i)

SpecConc == Init /\ [][NextConc]_vars

Next ==
    \/ \E i \in Inv : Start(i)
    \/ \E i \in Inv, ev \in Events : Callback(i, ev)
    \/ \E i \in Inv : Resume(i)
    \/ \E i \in Inv : SendDone(i)
    \/ \E i \in Inv : JsonDone(i)

Spec == Init /\ [][Next]_vars

\* the caller drops the future of fetch_bathrooms at one of its awaits
\* (lines 78, 86, 88); the receiver, if still held, is dropped with it
DropFuture(i) ==
    /\ pc[i] \in {"awaiting", "sending", "parsing"}
    /\ pc' = [pc EXCEPT ![i] = "dropped"]
    /\ droppedAt' = [droppedAt EXCEPT
                       ![i] = IF pc[i] # "awaiting" THEN pc[i]
                              ELSE IF first[i] = NoEvent THEN "pending"
                              ELSE "settled"]
    /\ chan' = [chan EXCEPT ![i] = IF pc[i] = "awaiting"
                                   THEN DropReceiver(@) ELSE @]
    /\ UNCHANGED <<device, registrations, gate, lock, cb, first, later, sent,
                   received, requests, response, result>>

NextDrop ==
    \/ \E i \in ConcInv : Start(i)
    \/ \E i \in ConcInv, ev \in Events : Callback(i, ev)
    \/ \E i \in ConcInv : Resume(i)
    \/ \E i \in ConcInv : SendDone(i)
    \/ \E i \in ConcInv : JsonDone(i)
    \/ \E i \in ConcInv : DropFuture(i)

SpecDrop == Init /\ [][NextDrop]_vars

\* the executor polls the awaiting task again once the channel woke it
Fairness == \A i \in Inv : WF_vars(Resume(i))
SpecFair == Init /\ [][Next]_vars /\ Fairness

(* ------------------------------ properties ------------------------------ *)
\* the outcome the first callback event stands for
Outcome(ev) ==
    IF ev[1] = "success" THEN <<"Ok", ev[2], ev[3]>>
    ELSE <<"Err", "FetchBathroomsFailed">>

Registered(i) == registrations[i] > 0

\* C1: at-most-one settlement. The value in the channel and the value the
\* awaiting side received are the payload of the first callback fired on the
\* gate, the channel is settled by exactly one send once a callback has
\* fired, and every later callback changes nothing of the invocation's
\* state.
C1_AtMostOneSettlement ==
    /\ [](\A i \in Inv :
            /\ chan[i].data # NoValue => chan[i].data = Outcome(first[i])
            /\ received[i] # NoValue => received[i] = Outcome(first[i])
            /\ sent[i] = (IF first[i] # NoEvent THEN 1 ELSE 0)
            /\ chan[i].complete <=> first[i] # NoEvent)
    /\ [][\A i \in Inv :
            /\ first[i] # NoEvent =>
                  /\ first'[i] = first[i] /\ gate'[i] = gate[i]
                  /\ sent'[i] = sent[i]
                  /\ chan'[i] = chan[i] \/ received'[i] = chan[i].data
            /\ (first[i] # NoEvent /\ later'[i] # later[i]) =>
                  UNCHANGED <<pc, device, registrations, gate, lock, chan,
                              cb, first, sent, received, requests, response,
                              result>>]_vars

C1_Witness ==
    /\ later[1]
    /\ first[1] = <<"success", -15, 7>>
    /\ received[1] = <<"Ok", -15, 7>>
    /\ gate[1] = NoSender

\* C2: short-circuit. When the error callback fired first, the invocation
\* has issued no network request in any state, and it can only be awaiting
\* or have returned the error FetchBathroomsFailed.
C2_ShortCircuit ==
    \A i \in Inv :
        (first[i] # NoEvent /\ first[i][1] = "error") =>
            /\ requests[i] = <<>>
            /\ response[i] = NoResponse
            /\ pc[i] \in {"awaiting", "returned"}
            /\ pc[i] = "returned" =>
                   result[i] = <<"Err", "FetchBathroomsFailed">>

C2_Witness ==
    /\ pc[1] = "returned"
    /\ later[1]
    /\ first[1] = <<"error", "PERMISSION_DENIED">>
    /\ result[1] = <<"Err", "FetchBathroomsFailed">>
    /\ requests[1] = <<>>

NetworkFailed(i) ==
    /\ response[i] # NoResponse
    /\ \/ response[i].kind = "transport_error"
       \/ /\ response[i].kind = "response"
          /\ \/ response[i].status \notin 200 .. 299
             \/ response[i].body \in
                    {BodyMissingTags, BodyHtml}

\* C3: a network-stage failure (transport error, non-success status or a
\* body that does not parse) ends the invocation with the returned error
\* FetchFailed, never with a panic or another result.
C3_NetworkFailureIsReturnedError ==
    \A i \in Inv :
        (NetworkFailed(i) /\ pc[i] # "parsing") =>
            /\ pc[i] = "returned"
            /\ result[i] = <<"Err", "FetchBathroomsFailed">>

\* C4: with the geolocation capability absent the invocation returns
\* Failure(Unsupported), registers no position request and issues no
\* network request.
C4_UnsupportedIsReturnedFailure ==
    \A i \in Inv :
        device[i] = "no_geolocation" =>
            /\ pc[i] = "returned"
            /\ result[i] = <<"Err", "Unsupported">>
            /\ registrations[i] = 0
            /\ requests[i] = <<>>

\* C5: a failing registration of the callbacks is delivered through the
\* return value; the invocation does not abort at the registration step.
C5_RegistrationFailureIsReturned ==
    \A i \in Inv :
        device[i] = "register_err" =>
            /\ pc[i] = "returned"
            /\ result[i] # NoValue /\ result[i][1] = "Err"

\* C6: at most one network request per invocation; exactly one once the
\* awaiting side resumed with Success, whether the invocation then returned
\* or failed in the network stage.
C6_ExactlyOneRequest ==
    \A i \in Inv :
        /\ Len(requests[i]) <= 1
        /\ (received[i] # NoValue /\ received[i][1] = "Ok")
               <=> Len(requests[i]) = 1
        /\ (pc[i] = "returned" /\ result[i][1] = "Ok") => Len(requests[i]) = 1
        /\ response[i] # NoResponse => Len(requests[i]) = 1

C6_Witness ==
    /\ pc[1] = "panicked"
    /\ response[1] = TransportError
    /\ Len(requests[1]) = 1
    /\ pc[2] = "returned" /\ result[2][1] = "Ok" /\ Len(requests[2]) = 1

DigitValue(c) ==
    CASE c = "0" -> 0 [] c = "1" -> 1 [] c = "2" -> 2 [] c = "3" -> 3
      [] c = "4" -> 4 [] c = "5" -> 5 [] c = "6" -> 6 [] c = "7" -> 7
      [] c = "8" -> 8 [] c = "9" -> 9

RECURSIVE ReadNat(_)
ReadNat(s) ==
    IF s = <<>> THEN 0
    ELSE ReadNat(SubSeq(s, 1, Len(s) - 1)) * 10 + DigitValue(s[Len(s)])

\* the number, in tenths, that a decimal text denotes
ReadF64(s) ==
    LET neg == s # <<>> /\ s[1] = "-"
        body == IF neg THEN Tail(s) ELSE s
        dots == {k \in 1 .. Len(body) : body[k] = "."}
        dot == IF dots = {} THEN Len(body) + 1 ELSE CHOOSE k \in dots : TRUE
        mag == ReadNat(SubSeq(body, 1, dot - 1)) * 10
                 + (IF dots = {} THEN 0 ELSE DigitValue(body[dot + 1]))
    IN IF neg THEN 0 - mag ELSE mag

\* the <<lat, lon>> pair embedded between "(around:2000," and ")"
EmbeddedCoords(u) ==
    LET args == SubSeq(u, 9, Len(u) - 2)
        comma == CHOOSE k \in 1 .. Len(args) : args[k] = ","
    IN <<ReadF64(SubSeq(args, 1, comma - 1)),
         ReadF64(SubSeq(args, comma + 1, Len(args)))>>

\* C7: a request exists only after settlement with Success, and its query
\* carries the filter amenity=toilets, the radius 2000 and exactly the
\* latitude and longitude of the first (settling) success callback.
C7_QueryConstruction ==
    \A i \in Inv :
        requests[i] # <<>> =>
            /\ first[i][1] = "success"
            /\ received[i] = <<"Ok", first[i][2], first[i][3]>>
            /\ LET u == requests[i][1] IN
                /\ u[1] = "https://overpass-api.de/api/interpreter"
                /\ u[5] = "[\"amenity\"=\"toilets\"]"
                /\ u[6] = "(around:" /\ u[7] = "2000" /\ u[8] = ","
                /\ u[Len(u) - 1] = ")"
                /\ EmbeddedCoords(u) = <<first[i][2], first[i][3]>>

C7_Witness ==
    /\ later[1]
    /\ first[1] = <<"success", -15, 7>>
    /\ requests[1] =
         << UrlHead \o <<"-", "1", ".", "5", ",", "0", ".", "7">> \o UrlTail >>
    /\ first[2] = <<"success", 123, -120>>
    /\ requests[2] =
         << UrlHead \o <<"1", "2", ".", "3", ",", "-", "1", "2">> \o UrlTail >>

\* C8: while no callback has fired, a started invocation stays at the
\* location await: no value received, no result, no network request, and
\* exactly the one position request it registered.
C8_NoTimeout ==
    \A i \in Inv :
        (device[i] = "ok" /\ first[i] = NoEvent) =>
            /\ pc[i] = "awaiting"
            /\ received[i] = NoValue
            /\ result[i] = NoValue
            /\ requests[i] = <<>>
            /\ registrations[i] = 1

C8_Witness ==
    /\ pc[1] = "awaiting" /\ first[1] = NoEvent /\ device[1] = "ok"
    /\ pc[2] = "returned" /\ result[2][1] = "Ok"

\* C9: per-invocation isolation. A callback of one invocation changes no
\* gate, channel, received value, request or result of another invocation,
\* and each invocation receives the payload of the first callback fired on
\* its own gate.
C9_Isolation ==
    /\ [][\A i \in Inv : \A j \in Inv \ {i} :
            (first'[i] # first[i] \/ later'[i] # later[i]) =>
                /\ gate'[j] = gate[j] /\ chan'[j] = chan[j]
                /\ sent'[j] = sent[j] /\ received'[j] = received[j]
                /\ first'[j] = first[j] /\ pc'[j] = pc[j]
                /\ requests'[j] = requests[j] /\ result'[j] = result[j]]_vars
    /\ [](\A i \in Inv :
            /\ gate[i] \in {NoSender, i}
            /\ (Registered(i) /\ first[i] = NoEvent) => gate[i] = i
            /\ received[i] # NoValue => received[i] = Outcome(first[i]))

C9_Witness ==
    /\ first[1] = <<"success", 123, -120>>
    /\ first[2] = <<"error", "TIMEOUT">>
    /\ received[1] = <<"Ok", 123, -120>>
    /\ received[2] = <<"Err", "FetchBathroomsFailed">>

\* C10: with the two closures of one invocation running as interleaved
\* threads, at most one of them ever holds the sender taken from the gate
\* and at most one value is sent on the channel.
C10_TakeAndSettleExclusive ==
    \A i \in Inv :
        /\ Cardinality({k \in Kinds : cb[i][k].taken # NoSender}) <= 1
        /\ sent[i] <= 1
        /\ Cardinality({k \in Kinds :
                          cb[i][k].pc \in {"read", "clear", "send", "unlock"}})
               <= 1

C10_Witness ==
    /\ cb[1]["error"].pc = "send" /\ cb[1]["error"].taken = 1
    /\ cb[1]["success"].pc = "lock"
    /\ sent[1] = 0

\* the response body lacks a field the structs require
MissingRequiredField(i) ==
    /\ response[i].kind = "response"
    /\ response[i].body = BodyMissingTags

\* C11: a response missing required fields makes the invocation return
\* Errored(FetchFailed); Ready is returned only for a response whose every
\* element parsed, with as many elements as the response has.
C11_SchemaMismatchIsReturnedError ==
    \A i \in Inv :
        /\ (MissingRequiredField(i) /\ pc[i] # "parsing") =>
               /\ pc[i] = "returned"
               /\ result[i] = <<"Err", "FetchBathroomsFailed">>
        /\ (pc[i] = "returned" /\ result[i][1] = "Ok") =>
               /\ ~MissingRequiredField(i)
               /\ Len(result[i][2].elements)
                      = Len(response[i].body[2]["elements"])

\* C12: on the happy path the returned elements are those of the response in
\* response order: the two-element response with ids 1 and 2 comes back as
\* [1, 2] with the fields of each element kept.
C12_OrderPreserved ==
    \A i \in Inv :
        (pc[i] = "returned" /\ result[i][1] = "Ok") =>
            LET got == result[i][2].elements
                els == response[i].body[2]["elements"]
            IN /\ Len(got) = Len(els)
               /\ \A k \in 1 .. Len(els) :
                    /\ got[k].id = els[k]["id"]
                    /\ got[k].lat = els[k]["lat"]
                    /\ got[k].lon = els[k]["lon"]
                    /\ got[k].tags = els[k]["tags"]
               /\ [k \in 1 .. Len(got) |-> got[k].id] = <<1, 2>>

C12_Witness ==
    /\ pc[1] = "returned"
    /\ response[1] = [kind |-> "response", status |-> 200, body |-> BodyTwo]
    /\ result[1][1] = "Ok"
    /\ result[1][2].elements[1].id = 1
    /\ result[1][2].elements[2].id = 2
    /\ result[1][2].elements[1].tags = [amenity |-> "toilets"]

ErrorFirst(i) == first[i] # NoEvent /\ first[i][1] = "error"

\* C13: device-error collapse. Whatever error kind the device reported
\* first, the invocation sends, receives and returns the one value
\* FetchBathroomsFailed, and two invocations whose first callbacks report
\* errors are, at the same position, in the same channel, received, request
\* and result state.
C13_DeviceErrorCollapse ==
    /\ \A i \in Inv :
         ErrorFirst(i) =>
            /\ chan[i].data \in {NoValue, <<"Err", "FetchBathroomsFailed">>}
            /\ received[i] \in {NoValue, <<"Err", "FetchBathroomsFailed">>}
            /\ result[i] \in {NoValue, <<"Err", "FetchBathroomsFailed">>}
    /\ \A i \in Inv : \A j \in Inv :
         (ErrorFirst(i) /\ ErrorFirst(j) /\ pc[i] = pc[j]) =>
            /\ chan[i] = chan[j] /\ received[i] = received[j]
            /\ result[i] = result[j] /\ requests[i] = requests[j]
            /\ response[i] = response[j]
            /\ (gate[i] = NoSender) <=> (gate[j] = NoSender)

C13_Witness ==
    /\ first[1] = <<"error", "PERMISSION_DENIED">>
    /\ first[2] = <<"error", "TIMEOUT">>
    /\ pc[1] = "returned" /\ pc[2] = "returned"
    /\ result[1] = result[2]

Terminal(i) == pc[i] \in {"returned", "panicked"}

\* C14: no internal retry. An invocation that reached its await registered
\* exactly one position request and never registers another; once it has
\* returned or aborted it takes no further step: no new position request, no
\* new network request, no change of result.
C14_NoInternalRetry ==
    /\ [](\A i \in Inv :
            /\ registrations[i] <= 1
            /\ (device[i] = "ok") <=> (registrations[i] = 1)
            /\ pc[i] \in {"awaiting", "sending", "parsing"} =>
                   registrations[i] = 1)
    /\ [][\A i \in Inv :
            /\ pc[i] # "idle" => registrations'[i] = registrations[i]
            /\ Terminal(i) =>
                  /\ pc'[i] = pc[i] /\ result'[i] = result[i]
                  /\ requests'[i] = requests[i]
                  /\ registrations'[i] = registrations[i]]_vars

C14_Witness ==
    /\ pc[1] = "returned" /\ result[1] = <<"Err", "FetchBathroomsFailed">>
    /\ registrations[1] = 1 /\ requests[1] = <<>> /\ later[1]
    /\ pc[2] = "panicked" /\ response[2] = TransportError
    /\ registrations[2] = 1 /\ Len(requests[2]) = 1

\* C15: progress. With the awaiting task scheduled fairly, once a callback
\* has fired the awaiting side receives that first callback's outcome; after
\* a first success a network request is issued, after a first error the
\* invocation returns the error.
C15_Progress ==
    \A i \in Inv :
        (first[i] # NoEvent) ~>
            /\ received[i] = Outcome(first[i])
            /\ first[i][1] = "success" => Len(requests[i]) = 1
            /\ first[i][1] = "error" =>
                  /\ pc[i] = "returned"
                  /\ result[i] = <<"Err", "FetchBathroomsFailed">>

C15_Witness ==
    /\ first[1] = <<"success", 123, -120>>
    /\ received[1] = <<"Ok", 123, -120>> /\ Len(requests[1]) = 1
    /\ first[2] = <<"error", "POSITION_UNAVAILABLE">>
    /\ pc[2] = "returned" /\ result[2] = <<"Err", "FetchBathroomsFailed">>

\* C16: no cancellation observed. The sender of a started invocation is
\* either still in its gate, with nothing sent, or out of the gate with
\* exactly one value sent; a completed channel always carried a value, so the
\* await never yields a cancelled channel and the unwrap at line 78 never
\* aborts.
C16_SenderNeverDroppedUnsent ==
    \A i \in Inv :
        /\ pc[i] # "idle" =>
            \/ gate[i] = i /\ sent[i] = 0 /\ ~chan[i].complete
            \/ gate[i] = NoSender /\ sent[i] = 1 /\ chan[i].complete
        /\ (chan[i].complete /\ chan[i].rx = "alive") =>
               chan[i].data # NoValue
        /\ chan[i].rx = "dropped" => received[i] # NoValue
        /\ (pc[i] = "panicked" /\ device[i] = "ok") =>
               (received[i] # NoValue /\ received[i][1] = "Ok")

C16_Witness ==
    /\ gate[1] = NoSender /\ sent[1] = 1 /\ later[1]
    /\ pc[1] = "returned" /\ received[1] = <<"Err", "FetchBathroomsFailed">>
    /\ gate[2] = 2 /\ sent[2] = 0 /\ pc[2] = "awaiting"

\* C17: late callback after the awaiting side is gone. For a future dropped
\* at the location await before any callback fired, the first callback still
\* empties the gate and makes its one send, which stores nothing; no value is
\* received, no request issued, no result produced, and later callbacks
\* change nothing.
C17_LateCallbackAfterDrop ==
    /\ [](\A i \in Inv :
            droppedAt[i] = "pending" =>
                /\ pc[i] = "dropped"
                /\ chan[i].data = NoValue /\ chan[i].rx = "dropped"
                /\ received[i] = NoValue /\ result[i] = NoValue
                /\ requests[i] = <<>> /\ response[i] = NoResponse
                /\ first[i] = NoEvent => (gate[i] = i /\ sent[i] = 0)
                /\ first[i] # NoEvent => (gate[i] = NoSender /\ sent[i] = 1))
    /\ [][\A i \in Inv :
            (droppedAt[i] = "pending" /\ first[i] # NoEvent) =>
                UNCHANGED <<pc[i], gate[i], chan[i], sent[i], first[i],
                            received[i], requests[i], response[i],
                            result[i], registrations[i]>>]_vars

C17_Witness ==
    /\ droppedAt[1] = "pending"
    /\ first[1] = <<"success", -15, 7>>
    /\ later[1]
    /\ gate[1] = NoSender /\ sent[1] = 1
    /\ chan[1].data = NoValue
    /\ requests[1] = <<>> /\ result[1] = NoValue
====
